---------------------------- MODULE Spec2Model ----------------------------
(***************************************************************************)
(* A model of s3reader (src/src/lib.rs): the S3Reader cursor, its lazily   *)
(* fetched header, the Read / Seek implementations and the pure seek       *)
(* computation s3reader_seek.                                              *)
(*                                                                         *)
(* Integers keep their width, scaled from 64 to Width bits: u64 values are *)
(* 0..U64Max, i64 values are I64Min..I64Max.  An arithmetic overflow       *)
(* panics in a build with overflow checks (debug) and wraps in a build     *)
(* without them (release); overflowChecks says which build runs.           *)
(*                                                                         *)
(* S3 is modelled by its two answers: head_object succeeds with the        *)
(* object's content_length or fails; get_object with an inclusive range    *)
(* fails, succeeds with a body that cannot be collected, or succeeds with  *)
(* a prefix of the object's bytes that lie inside the range.               *)
(***************************************************************************)
EXTENDS Integers, Sequences, FiniteSets, TLC

VARIABLES
    objLen,          \* content length of the S3 object (fixed for the session)
    overflowChecks,  \* TRUE: overflow panics (debug); FALSE: it wraps (release)
    phase,           \* "none" (no reader), "ready", "panicked"
    viaOpen,         \* the reader was returned by S3Reader::open
    pos,             \* S3Reader.pos
    header,          \* S3Reader.header: None or <<content_length>>
    call,            \* the last call: its inputs, remote calls and outcome
    lazyProbes,      \* head_object requests sent by len() since construction
    uri,             \* S3ObjectUri::new: its input and what it returned
    drain            \* a loop of reads: where it began, the bytes it delivered

vars == <<objLen, overflowChecks, phase, viaOpen, pos, header, call,
          lazyProbes, uri, drain>>

---------------------------------------------------------------------------
(* Bounds of the model *)

\* bits of u64 / i64 in the model
Width == 4
\* largest object length
MaxObjLen == 3
\* largest buffer handed to read
MaxBuf == 4
\* largest from / to handed to read_range
MaxRange == 4
\* longest text after the leading characters of a URI
MaxRest == 4

Modulus == 2 ^ Width
U64Max == Modulus - 1
I64Max == 2 ^ (Width - 1) - 1
I64Min == -(2 ^ (Width - 1))
U64 == 0 .. U64Max
I64 == I64Min .. I64Max

Min(a, b) == IF a <= b THEN a ELSE b

None == <<>>

---------------------------------------------------------------------------
(* Integer arithmetic of the build *)

\* an u64 operation whose mathematical result is raw overflows
Overflows(raw) == raw < 0 \/ raw > U64Max
\* ... and then panics exactly when the build checks for overflow
Panics(raw) == overflowChecks /\ Overflows(raw)
\* ... and otherwise wraps
Wrap(raw) == raw % Modulus

---------------------------------------------------------------------------
(* SeekFrom *)

SeekFrom ==
    [whence : {"Start"}, x : U64] \cup [whence : {"Current", "End"}, x : I64]

\* i64::unsigned_abs
unsigned_abs(x) == IF x < 0 THEN -x ELSE x

SeekOk(v) == [kind |-> "ok", val |-> v]
SeekErr == [kind |-> "NegativePosition", val |-> 0]
SeekPanic == [kind |-> "panic:overflow", val |-> 0]

\* s3reader_seek with Start(x) returned unclamped
s3reader_seek_unclamped(len, cursor, p) ==
    IF p.whence = "Start" THEN SeekOk(p.x)
    ELSE IF p.whence = "Current" THEN
        IF p.x >= 0
        THEN IF Panics(cursor + p.x) THEN SeekPanic
             ELSE SeekOk(Wrap(cursor + p.x))
        ELSE IF unsigned_abs(p.x) > cursor THEN SeekErr
             ELSE SeekOk(cursor - unsigned_abs(p.x))
    ELSE
        IF p.x >= 0 THEN SeekOk(len)
        ELSE IF unsigned_abs(p.x) > len THEN SeekErr
             ELSE SeekOk(len - unsigned_abs(p.x))

\* s3reader_seek with End(x >= 0) seeking x bytes beyond the end, as a file does
s3reader_seek_past_end(len, cursor, p) ==
    IF p.whence = "Start" THEN SeekOk(Min(p.x, len))
    ELSE IF p.whence = "Current" THEN
        IF p.x >= 0
        THEN IF Panics(cursor + p.x) THEN SeekPanic
             ELSE SeekOk(Min(Wrap(cursor + p.x), len))
        ELSE IF unsigned_abs(p.x) > cursor THEN SeekErr
             ELSE SeekOk(cursor - unsigned_abs(p.x))
    ELSE
        IF p.x >= 0
        THEN IF Panics(len + p.x) THEN SeekPanic ELSE SeekOk(Wrap(len + p.x))
        ELSE IF unsigned_abs(p.x) > len THEN SeekErr
             ELSE SeekOk(len - unsigned_abs(p.x))

\* fn s3reader_seek(len: u64, cursor: u64, pos: SeekFrom) -> Result<u64, io::Error>
s3reader_seek(len, cursor, p) ==
    IF p.whence = "Start" THEN SeekOk(Min(p.x, len))
    ELSE IF p.whence = "Current" THEN
        IF p.x >= 0
        THEN IF Panics(cursor + p.x) THEN SeekPanic
             ELSE SeekOk(Min(Wrap(cursor + p.x), len))
        ELSE IF unsigned_abs(p.x) > cursor THEN SeekErr
             ELSE SeekOk(cursor - unsigned_abs(p.x))
    ELSE
        IF p.x >= 0 THEN SeekOk(len)
        ELSE IF unsigned_abs(p.x) > len THEN SeekErr
             ELSE SeekOk(len - unsigned_abs(p.x))

\* some u64 addition or subtraction s3reader_seek performs on these arguments
\* has a result outside u64
s3reader_seek_overflows(len, cursor, p) ==
    IF p.whence = "Current" THEN
        IF p.x >= 0 THEN Overflows(cursor + p.x)
        ELSE unsigned_abs(p.x) <= cursor /\ Overflows(cursor - unsigned_abs(p.x))
    ELSE IF p.whence = "End" THEN
        p.x < 0 /\ unsigned_abs(p.x) <= len /\ Overflows(len - unsigned_abs(p.x))
    ELSE FALSE

---------------------------------------------------------------------------
(* The record of a call *)

NoCall ==
    [op |-> "none", whence |-> "", x |-> 0, from |-> 0, to |-> 0,
     pre |-> 0, preHeader |-> None, result |-> "ok", ret |-> 0,
     remote |-> <<>>, data |-> <<>>, bufIn |-> <<>>, bufOut |-> <<>>,
     err |-> <<>>, overflow |-> FALSE]

---------------------------------------------------------------------------
(* S3: the object and the two requests the reader sends *)

\* the byte at offset i of the object; every offset has its own value
ObjectByte(i) == i + 1

\* the bytes of the object at offsets from .. from + n - 1
ObjectBytes(from, n) == [i \in 1 .. n |-> ObjectByte(from + i - 1)]

\* how many bytes of the object lie inside the inclusive range [from, to]
Avail(from, to) ==
    IF from >= objLen \/ to < from THEN 0 ELSE Min(to, objLen - 1) - from + 1

HeadCall(ok) == [kind |-> "head", from |-> 0, to |-> 0, ok |-> ok]
GetCall(from, to, ok) == [kind |-> "get", from |-> from, to |-> to, ok |-> ok]

\* the get_object / head_object requests among the requests of a call
Gets(remote) == SelectSeq(remote, LAMBDA c : c.kind = "get")
Heads(remote) == SelectSeq(remote, LAMBDA c : c.kind = "head")

\* client.head_object()...send(): Ok(header) or Err
head_object == {[ok |-> TRUE, content_length |-> objLen],
                [ok |-> FALSE, content_length |-> 0]}

\* client.get_object()...range("bytes=from-to").send() and body.collect()
get_object(from, to) ==
    {[result |-> "ObjectNotFetched", data |-> <<>>],
     [result |-> "InvalidContent", data |-> <<>>]}
    \cup {[result |-> "ok", data |-> ObjectBytes(from, n)] :
             n \in 0 .. Avail(from, to)}

---------------------------------------------------------------------------
(* S3Reader *)

\* async fn fetch_header(&mut self) -> Result<(), SdkError<HeadObjectError>>
fetch_header(h) ==
    {[ok |-> r.ok,
      header |-> IF r.ok THEN <<r.content_length>> ELSE h,
      remote |-> <<HeadCall(r.ok)>>] : r \in head_object}

\* len that fetches the header on every call, cached or not
len_always_fetching(h) ==
    {[panic |-> ~f.ok, header |-> f.header,
      value |-> IF f.ok THEN f.header[1] ELSE 0,
      remote |-> f.remote] : f \in fetch_header(h)}

\* len taking a cached content_length of 0 for a length not yet known
len_refetching_zero(h) ==
    IF h # None /\ h[1] > 0
    THEN {[panic |-> FALSE, header |-> h, value |-> h[1], remote |-> <<>>]}
    ELSE {[panic |-> ~f.ok, header |-> f.header,
           value |-> IF f.ok THEN f.header[1] ELSE 0,
           remote |-> f.remote] : f \in fetch_header(h)}

\* fn len(&mut self) -> u64: the outcomes, each with the header it leaves
len(h) ==
    IF h # None
    THEN {[panic |-> FALSE, header |-> h, value |-> h[1], remote |-> <<>>]}
    ELSE {[panic |-> ~f.ok, header |-> f.header,
           value |-> IF f.ok THEN f.header[1] ELSE 0,
           remote |-> f.remote] : f \in fetch_header(h)}

RangeOutcome(result, h, remote, data) ==
    [result |-> result, header |-> h, remote |-> remote, data |-> data,
     err |-> <<>>]

\* Err(S3ReaderError::InvalidRange(from, to))
InvalidRange(from, to, h, remote) ==
    [result |-> "InvalidRange", header |-> h, remote |-> remote, data |-> <<>>,
     err |-> <<from, to>>]

\* read_range refusing from = length as well
read_range_from_below_length(h, from, to) ==
    IF to < from
    THEN {InvalidRange(from, to, h, <<>>)}
    ELSE UNION {
        IF l.panic
        THEN {RangeOutcome("panic:len", l.header, l.remote, <<>>)}
        ELSE IF from >= l.value
        THEN {InvalidRange(from, to, l.header, l.remote)}
        ELSE {RangeOutcome(g.result, l.header,
                           Append(l.remote, GetCall(from, to, g.result = "ok")),
                           g.data) : g \in get_object(from, to)}
        : l \in len(h)}

\* async fn read_range(&mut self, from: u64, to: u64) / read_range_sync
read_range(h, from, to) ==
    IF to < from
    THEN {InvalidRange(from, to, h, <<>>)}
    ELSE UNION {
        IF l.panic
        THEN {RangeOutcome("panic:len", l.header, l.remote, <<>>)}
        ELSE IF from > l.value
        THEN {InvalidRange(from, to, l.header, l.remote)}
        ELSE {RangeOutcome(g.result, l.header,
                           Append(l.remote, GetCall(from, to, g.result = "ok")),
                           g.data) : g \in get_object(from, to)}
        : l \in len(h)}

Outcome(result, ret, p, h, remote, data, buf) ==
    [result |-> result, ret |-> ret, pos |-> p, header |-> h,
     remote |-> remote, data |-> data, buf |-> buf]

\* what AggregatedBytes::reader().read(buf) leaves in buf
Copied(data, buf) ==
    [i \in 1 .. Len(buf) |-> IF i <= Len(data) THEN data[i] ELSE buf[i]]

\* read_fetch asking for end_pos as the last byte, not end_pos - 1
read_fetch_to_end_pos(l, p, buf) ==
    LET end_pos == p + Len(buf)
    IN  IF Panics(end_pos)
        THEN {Outcome("panic:overflow", 0, p, l.header, l.remote, <<>>, buf)}
        ELSE UNION {
            IF r.result # "ok"
            THEN {Outcome(r.result, 0, p, r.header, l.remote \o r.remote, <<>>, buf)}
            ELSE IF Panics(p + Len(r.data))
            THEN {Outcome("panic:overflow", 0, p, r.header, l.remote \o r.remote,
                          r.data, buf)}
            ELSE {Outcome("ok", Min(Len(r.data), Len(buf)), Wrap(p + Len(r.data)),
                          r.header, l.remote \o r.remote, r.data,
                          Copied(r.data, buf))}
            : r \in read_range(l.header, p, Wrap(end_pos))}

\* read_fetch moving the cursor by the length asked for, not the length received
read_fetch_advancing_by_request(l, p, buf) ==
    LET end_pos == p + Len(buf)
        to == Wrap(end_pos) - 1
    IN  IF Panics(end_pos) \/ Panics(to)
        THEN {Outcome("panic:overflow", 0, p, l.header, l.remote, <<>>, buf)}
        ELSE UNION {
            IF r.result # "ok"
            THEN {Outcome(r.result, 0, p, r.header, l.remote \o r.remote, <<>>, buf)}
            ELSE {Outcome("ok", Min(Len(r.data), Len(buf)), Wrap(end_pos),
                          r.header, l.remote \o r.remote, r.data,
                          Copied(r.data, buf))}
            : r \in read_range(l.header, p, Wrap(to))}

\* the rest of read once the length l.value is known and pos < length
read_fetch(l, p, buf) ==
    LET end_pos == p + Len(buf)
        to == Wrap(end_pos) - 1
    IN  IF Panics(end_pos) \/ Panics(to)
        THEN {Outcome("panic:overflow", 0, p, l.header, l.remote, <<>>, buf)}
        ELSE UNION {
            IF r.result # "ok"
            THEN {Outcome(r.result, 0, p, r.header, l.remote \o r.remote, <<>>, buf)}
            ELSE IF Panics(p + Len(r.data))
            THEN {Outcome("panic:overflow", 0, p, r.header, l.remote \o r.remote,
                          r.data, buf)}
            ELSE {Outcome("ok", Min(Len(r.data), Len(buf)), Wrap(p + Len(r.data)),
                          r.header, l.remote \o r.remote, r.data,
                          Copied(r.data, buf))}
            : r \in read_range(l.header, p, Wrap(to))}

\* read without its end-of-object test
read_without_eof(h, p, buf) ==
    UNION {
        IF l.panic
        THEN {Outcome("panic:len", 0, p, l.header, l.remote, <<>>, buf)}
        ELSE read_fetch(l, p, buf)
        : l \in len(h)}

\* fn read(&mut self, buf: &mut [u8]) -> Result<usize, io::Error>
read(h, p, buf) ==
    UNION {
        IF l.panic
        THEN {Outcome("panic:len", 0, p, l.header, l.remote, <<>>, buf)}
        ELSE IF p >= l.value
        THEN {Outcome("ok", 0, p, l.header, l.remote, <<>>, buf)}
        ELSE read_fetch(l, p, buf)
        : l \in len(h)}

\* read_to_end that moves the cursor to the length, whatever was received
read_to_end_to_length(h, p, buf) ==
    UNION {
        IF l.panic
        THEN {Outcome("panic:len", 0, p, l.header, l.remote, <<>>, buf)}
        ELSE IF Panics(l.value - 1)
        THEN {Outcome("panic:overflow", 0, p, l.header, l.remote, <<>>, buf)}
        ELSE UNION {
            IF r.result # "ok"
            THEN {Outcome(r.result, 0, p, r.header, l.remote \o r.remote, <<>>, buf)}
            ELSE {Outcome("ok", Len(r.data), l.value, r.header,
                          l.remote \o r.remote, r.data, buf \o r.data)}
            : r \in read_range(l.header, p, Wrap(l.value - 1))}
        : l \in len(h)}

\* fn read_to_end(&mut self, buf: &mut Vec<u8>) -> Result<usize, io::Error>
read_to_end(h, p, buf) ==
    UNION {
        IF l.panic
        THEN {Outcome("panic:len", 0, p, l.header, l.remote, <<>>, buf)}
        ELSE IF Panics(l.value - 1)
        THEN {Outcome("panic:overflow", 0, p, l.header, l.remote, <<>>, buf)}
        ELSE UNION {
            IF r.result # "ok"
            THEN {Outcome(r.result, 0, p, r.header, l.remote \o r.remote, <<>>, buf)}
            ELSE IF Panics(p + Len(r.data))
            THEN {Outcome("panic:overflow", 0, p, r.header, l.remote \o r.remote,
                          r.data, buf)}
            ELSE {Outcome("ok", Len(r.data), Wrap(p + Len(r.data)), r.header,
                          l.remote \o r.remote, r.data, buf \o r.data)}
            : r \in read_range(l.header, p, Wrap(l.value - 1))}
        : l \in len(h)}

\* seek assigning the cursor before it looks at the result
seek_assigning_first(h, p, sf) ==
    UNION {
        IF l.panic
        THEN {Outcome("panic:len", 0, p, l.header, l.remote, <<>>, <<>>)}
        ELSE LET r == s3reader_seek(l.value, p, sf) IN
             {Outcome(r.kind, r.val, r.val, l.header, l.remote, <<>>, <<>>)}
        : l \in len(h)}

\* fn seek(&mut self, pos: SeekFrom) -> Result<u64, io::Error>
seek(h, p, sf) ==
    UNION {
        IF l.panic
        THEN {Outcome("panic:len", 0, p, l.header, l.remote, <<>>, <<>>)}
        ELSE LET r == s3reader_seek(l.value, p, sf) IN
             {Outcome(r.kind, r.val, IF r.kind = "ok" THEN r.val ELSE p,
                      l.header, l.remote, <<>>, <<>>)}
        : l \in len(h)}

\* a call that panicked unwinds; no later call is made on the reader
PhaseAfter(result) ==
    IF result \in {"panic:len", "panic:overflow"} THEN "panicked" ELSE "ready"

---------------------------------------------------------------------------
(* The reader driven by its caller *)

\* no URI parsed
NoUri == [input |-> <<>>, result |-> "none", bucket |-> <<>>, key |-> <<>>]

\* no loop of reads running
NoDrain == [on |-> FALSE, start |-> 0, delivered |-> <<>>, done |-> FALSE]

Init ==
    /\ objLen \in 0 .. MaxObjLen
    /\ overflowChecks \in BOOLEAN
    /\ phase = "none"
    /\ viaOpen = FALSE
    /\ pos = 0
    /\ header = None
    /\ call = NoCall
    /\ lazyProbes = 0
    /\ uri = NoUri
    /\ drain = NoDrain

\* S3Reader::new / S3Reader::from_config
New ==
    /\ phase = "none"
    /\ phase' = "ready"
    /\ viaOpen' = FALSE
    /\ pos' = 0
    /\ header' = None
    /\ call' = [NoCall EXCEPT !.op = "new"]
    /\ UNCHANGED <<lazyProbes, uri, drain, objLen, overflowChecks>>

\* open with a reader returned whatever fetch_header answered
open_unchecked(h) ==
    {[ok |-> TRUE, header |-> f.header, remote |-> f.remote] : f \in fetch_header(h)}

\* S3Reader::open: Ok(reader) or Err(ObjectNotFetched)
open(h) ==
    {[ok |-> f.ok, header |-> f.header, remote |-> f.remote] : f \in fetch_header(h)}

Open ==
    /\ phase = "none"
    /\ \E o \in open(None) :
        /\ phase' = IF o.ok THEN "ready" ELSE "none"
        /\ viaOpen' = o.ok
        /\ pos' = 0
        /\ header' = IF o.ok THEN o.header ELSE None
        /\ call' = [NoCall EXCEPT !.op = "open", !.remote = o.remote,
                       !.result = IF o.ok THEN "ok" ELSE "ObjectNotFetched"]
    /\ UNCHANGED <<lazyProbes, uri, drain, objLen, overflowChecks>>

\* the caller's buffer of n bytes
Buffer(n) == [i \in 1 .. n |-> 0]

Apply(op, o, bufIn) ==
    /\ phase' = PhaseAfter(o.result)
    /\ pos' = o.pos
    /\ header' = o.header
    /\ call' = [NoCall EXCEPT !.op = op, !.pre = pos, !.preHeader = header,
                   !.result = o.result, !.ret = o.ret, !.remote = o.remote,
                   !.data = o.data, !.bufIn = bufIn, !.bufOut = o.buf]
    /\ lazyProbes' = lazyProbes + Len(Heads(o.remote))
    /\ UNCHANGED <<uri, drain, objLen, overflowChecks, viaOpen>>

Read ==
    /\ phase = "ready"
    /\ \E n \in 0 .. MaxBuf : \E o \in read(header, pos, Buffer(n)) :
        Apply("read", o, Buffer(n))

\* the vector the caller hands to read_to_end: empty or already holding a byte
Vectors == {<<>>, <<0>>}

ReadToEnd ==
    /\ phase = "ready"
    /\ \E v \in Vectors : \E o \in read_to_end(header, pos, v) :
        Apply("read_to_end", o, v)

Seek ==
    /\ phase = "ready"
    /\ \E sf \in SeekFrom : \E o \in seek(header, pos, sf) :
        /\ phase' = PhaseAfter(o.result)
        /\ pos' = o.pos
        /\ header' = o.header
        /\ call' = [NoCall EXCEPT !.op = "seek", !.whence = sf.whence, !.x = sf.x,
                       !.pre = pos, !.preHeader = header, !.result = o.result,
                       !.ret = o.ret, !.remote = o.remote]
        /\ lazyProbes' = lazyProbes + Len(Heads(o.remote))
        /\ UNCHANGED <<uri, drain, objLen, overflowChecks, viaOpen>>

\* read_range_sync moving the cursor past the bytes it received
ReadRangeAdvancing ==
    /\ phase = "ready"
    /\ \E from \in 0 .. MaxRange, to \in 0 .. MaxRange :
        \E r \in read_range(header, from, to) :
            /\ phase' = PhaseAfter(r.result)
            /\ header' = r.header
            /\ pos' = IF r.result = "ok" THEN from + Len(r.data) ELSE pos
            /\ call' = [NoCall EXCEPT !.op = "read_range", !.from = from, !.to = to,
                           !.pre = pos, !.preHeader = header, !.result = r.result,
                           !.ret = Len(r.data), !.remote = r.remote, !.data = r.data,
                           !.err = r.err]
            /\ lazyProbes' = lazyProbes + Len(Heads(r.remote))
            /\ UNCHANGED <<uri, drain, objLen, overflowChecks, viaOpen>>

ReadRange ==
    /\ phase = "ready"
    /\ \E from \in 0 .. MaxRange, to \in 0 .. MaxRange :
        \E r \in read_range(header, from, to) :
            /\ phase' = PhaseAfter(r.result)
            /\ header' = r.header
            /\ call' = [NoCall EXCEPT !.op = "read_range", !.from = from, !.to = to,
                           !.pre = pos, !.preHeader = header, !.result = r.result,
                           !.ret = Len(r.data), !.remote = r.remote, !.data = r.data,
                           !.err = r.err]
            /\ lazyProbes' = lazyProbes + Len(Heads(r.remote))
            /\ UNCHANGED <<uri, drain, objLen, overflowChecks, viaOpen, pos>>

FetchHeader ==
    /\ phase = "ready"
    /\ \E f \in fetch_header(header) :
        /\ header' = f.header
        /\ call' = [NoCall EXCEPT !.op = "fetch_header", !.pre = pos,
                       !.preHeader = header, !.remote = f.remote,
                       !.result = IF f.ok THEN "ok" ELSE "HeadObjectError"]
        /\ UNCHANGED <<lazyProbes, uri, drain, objLen, overflowChecks, phase, viaOpen, pos>>

Length ==
    /\ phase = "ready"
    /\ \E l \in len(header) :
        /\ phase' = IF l.panic THEN "panicked" ELSE "ready"
        /\ header' = l.header
        /\ call' = [NoCall EXCEPT !.op = "len", !.pre = pos, !.preHeader = header,
                       !.result = IF l.panic THEN "panic:len" ELSE "ok",
                       !.ret = l.value, !.remote = l.remote]
        /\ lazyProbes' = lazyProbes + Len(Heads(l.remote))
        /\ UNCHANGED <<uri, drain, objLen, overflowChecks, viaOpen, pos>>

Next ==
    \/ New
    \/ Open
    \/ Read
    \/ ReadToEnd
    \/ Seek
    \/ ReadRange
    \/ FetchHeader
    \/ Length

Spec == Init /\ [][Next]_vars

---------------------------------------------------------------------------
(* Properties *)

IsPanic(result) == result \in {"panic:len", "panic:overflow"}
\* the length lookup of the last call produced a length
LengthKnown == call.result # "panic:len"
\* how many bytes of the caller's buffer the last call wrote
BytesCopied ==
    Cardinality({i \in 1 .. Len(call.bufIn) : call.bufOut[i] # call.bufIn[i]})

\* C1: in every reachable state, after any sequence of seek, read, read_to_end
\* and read_range calls (succeeding or failing), 0 <= cursor <= length of the
\* object, and the cursor does not exceed the cached length either.
CursorWithinLength ==
    /\ 0 <= pos
    /\ pos <= objLen
    /\ header # None => pos <= header[1]

\* C1 witness: a read has moved the cursor to the end of a non-empty object
CursorAtEndAfterRead ==
    /\ call.op = "read"
    /\ call.result = "ok"
    /\ call.pre < pos
    /\ pos = objLen

\* C2 (as claimed): a read with cursor < length and a non-empty buffer issues
\* exactly one range fetch, for [cursor, min(cursor + len(buffer), length) - 1].
ReadRequestsClampedRange ==
    (/\ call.op = "read"
     /\ LengthKnown
     /\ call.pre < objLen
     /\ Len(call.bufIn) > 0)
    => /\ Len(Gets(call.remote)) = 1
       /\ Gets(call.remote)[1].from = call.pre
       /\ Gets(call.remote)[1].to = Min(call.pre + Len(call.bufIn), objLen) - 1

\* C2 (amended): a read with cursor < length issues at most one range fetch;
\* with a non-empty buffer it issues exactly one, for the inclusive range
\* [cursor, cursor + len(buffer) - 1], which is not clamped to the length; when
\* S3 answers with every byte of the object inside that range, the read
\* returns min(len(buffer), length - cursor) and the cursor advances by it.
ReadRequestsBufferRange ==
    (call.op = "read" /\ LengthKnown /\ call.pre < objLen)
    => /\ Len(Gets(call.remote)) <= 1
       /\ Len(call.bufIn) > 0
          => /\ Len(Gets(call.remote)) = 1
             /\ Gets(call.remote)[1].from = call.pre
             /\ Gets(call.remote)[1].to = call.pre + Len(call.bufIn) - 1
             /\ (/\ call.result = "ok"
                 /\ Len(call.data) = Min(Len(call.bufIn), objLen - call.pre))
                => /\ call.ret = Min(Len(call.bufIn), objLen - call.pre)
                   /\ pos = call.pre + call.ret

\* C2 witness: a read with a buffer larger than the rest of the object asked
\* for a range that ends beyond the object and consumed the object
ReadBeyondEndRequested ==
    /\ call.op = "read"
    /\ call.result = "ok"
    /\ call.pre + Len(call.bufIn) > objLen
    /\ Len(Gets(call.remote)) = 1
    /\ Gets(call.remote)[1].to > objLen - 1
    /\ call.ret = objLen - call.pre
    /\ pos = objLen

\* C3 (as claimed): whenever read succeeds, the count it returns equals the
\* number of bytes copied into the buffer, equals the advance of the cursor,
\* and equals the number of bytes S3 returned.
ReadCountIsBytesReceived ==
    (call.op = "read" /\ call.result = "ok")
    => /\ call.ret = BytesCopied
       /\ call.ret = pos - call.pre
       /\ call.ret = Len(call.data)

\* C4 (as claimed): a read with cursor >= length returns 0 without error,
\* issues no remote call at all and leaves the cursor unchanged.
ReadAtEndNoRemoteCall ==
    (call.op = "read" /\ LengthKnown /\ call.pre >= objLen)
    => /\ call.result = "ok"
       /\ call.ret = 0
       /\ call.bufOut = call.bufIn
       /\ pos = call.pre
       /\ call.remote = <<>>

\* C4 (amended): a read with cursor >= length returns 0 without error, leaves
\* the cursor and the buffer unchanged and issues no range fetch; it issues no
\* remote call at all when the length was cached, and otherwise exactly the
\* one metadata probe of the length lookup.
ReadAtEndNoRangeFetch ==
    (call.op = "read" /\ LengthKnown /\ call.pre >= objLen)
    => /\ call.result = "ok"
       /\ call.ret = 0
       /\ call.bufOut = call.bufIn
       /\ pos = call.pre
       /\ Gets(call.remote) = <<>>
       /\ call.preHeader # None => call.remote = <<>>
       /\ call.preHeader = None => call.remote = <<HeadCall(TRUE)>>

\* C4 witness: a read at the end of a non-empty object returned 0
ReadAtEndOfObject ==
    /\ call.op = "read"
    /\ call.result = "ok"
    /\ objLen > 0
    /\ call.pre = objLen
    /\ Len(call.bufIn) > 0
    /\ call.ret = 0

\* the seek contract in unbounded integers
SeekReference(length, cursor, p) ==
    IF p.whence = "Start" THEN SeekOk(Min(p.x, length))
    ELSE IF p.whence = "Current" THEN
        IF p.x >= 0 THEN SeekOk(Min(cursor + p.x, length))
        ELSE IF -p.x > cursor THEN SeekErr ELSE SeekOk(cursor + p.x)
    ELSE
        IF p.x >= 0 THEN SeekOk(length)
        ELSE IF -p.x > length THEN SeekErr ELSE SeekOk(length + p.x)

\* C5 (as claimed): for every len, cursor <= len and offset, the seek
\* computation returns what the reference returns, and an error only where the
\* reference does.
SeekMatchesReference ==
    (call.op = "s3reader_seek" /\ call.pre <= header[1])
    => LET ref == SeekReference(header[1], call.pre,
                                [whence |-> call.whence, x |-> call.x])
       IN  call.result = ref.kind /\ call.ret = ref.val

\* C6 (as claimed): for all len, cursor, origin and offset, every successful
\* result r of the seek computation satisfies 0 <= r <= len.
SeekResultWithinLenAnyCursor ==
    (call.op = "s3reader_seek" /\ call.result = "ok")
    => (0 <= call.ret /\ call.ret <= header[1])

\* C6 (amended): for all len, origin and offset and every cursor <= len, every
\* successful result r of the seek computation satisfies 0 <= r <= len.
SeekResultWithinLen ==
    (call.op = "s3reader_seek" /\ call.result = "ok" /\ call.pre <= header[1])
    => (0 <= call.ret /\ call.ret <= header[1])

\* C6 witness: Start(x) with x beyond the length was clamped to the length
SeekStartClamped ==
    /\ call.op = "s3reader_seek"
    /\ call.result = "ok"
    /\ call.pre <= header[1]
    /\ call.whence = "Start"
    /\ call.x > header[1]
    /\ call.ret = header[1]

\* C7 (as claimed): on a reader whose length is not cached, a failing metadata
\* probe makes read, seek, read_to_end and read_range return an error value;
\* the call does not panic and the reader remains usable.
LazyProbeFailureIsAnError ==
    (/\ call.op \in {"read", "seek", "read_to_end", "read_range"}
     /\ call.preHeader = None
     /\ \E i \in 1 .. Len(call.remote) :
            call.remote[i].kind = "head" /\ ~call.remote[i].ok)
    => /\ ~IsPanic(call.result)
       /\ call.result # "ok"
       /\ phase = "ready"

\* C8: open returns a reader if and only if its metadata probe succeeds and
\* otherwise ObjectNotFetched; a reader returned by open has its length
\* cached, no later read, seek, read_to_end, read_range or len on it issues a
\* metadata probe, and its length lookup never panics.
OpenCachesLength ==
    /\ call.op = "open"
       => /\ Len(call.remote) = 1
          /\ call.remote[1].kind = "head"
          /\ (call.result = "ok") <=> call.remote[1].ok
          /\ (phase = "ready" /\ viaOpen) <=> call.remote[1].ok
          /\ ~call.remote[1].ok
             => (call.result = "ObjectNotFetched" /\ phase = "none")
    /\ viaOpen
       => /\ header = <<objLen>>
          /\ call.result # "panic:len"
          /\ call.op \in {"read", "seek", "read_to_end", "read_range", "len"}
             => Heads(call.remote) = <<>>

\* C8 witness: a reader returned by open has read bytes
ReadOnOpenedReader ==
    /\ viaOpen
    /\ call.op = "read"
    /\ call.result = "ok"
    /\ call.ret > 0

\* C9: read_to_end with cursor c < length issues exactly one range fetch, for
\* [c, length - 1]; on success it appends exactly the bytes S3 returned to the
\* vector, returns their count n and sets the cursor to c + n.
ReadToEndFetchesRest ==
    (call.op = "read_to_end" /\ LengthKnown /\ call.pre < objLen)
    => /\ Len(Gets(call.remote)) = 1
       /\ Gets(call.remote)[1].from = call.pre
       /\ Gets(call.remote)[1].to = objLen - 1
       /\ call.result = "ok"
          => /\ call.data = ObjectBytes(call.pre, Len(call.data))
             /\ call.bufOut = call.bufIn \o call.data
             /\ call.ret = Len(call.data)
             /\ pos = call.pre + call.ret

\* C9 witness: S3 returned fewer bytes than the rest of the object, and they
\* were appended to a vector that already held a byte
ReadToEndShortResponse ==
    /\ call.op = "read_to_end"
    /\ call.result = "ok"
    /\ call.bufIn # <<>>
    /\ call.ret > 0
    /\ call.pre + call.ret < objLen

\* C10 (as claimed): read_to_end with cursor = length, when no remote call
\* fails and the call returns, returns success with 0 bytes, appends nothing
\* and leaves the cursor unchanged.
ReadToEndAtEndSucceeds ==
    (/\ call.op = "read_to_end"
     /\ ~IsPanic(call.result)
     /\ call.pre = objLen
     /\ \A i \in 1 .. Len(call.remote) : call.remote[i].ok)
    => /\ call.result = "ok"
       /\ call.ret = 0
       /\ call.bufOut = call.bufIn
       /\ pos = call.pre

\* C11: read_range(from, to), once the length is known, fails with
\* InvalidRange(from, to) whenever to < from and whenever from > length, and
\* then sends no get_object; for every other (from, to) it sends exactly one
\* get_object, for the inclusive range [from, to].
ReadRangeValidatesRange ==
    (call.op = "read_range" /\ LengthKnown)
    => IF call.to < call.from \/ call.from > objLen
       THEN /\ call.result = "InvalidRange"
            /\ call.err = <<call.from, call.to>>
            /\ Gets(call.remote) = <<>>
       ELSE /\ call.result # "InvalidRange"
            /\ Len(Gets(call.remote)) = 1
            /\ Gets(call.remote)[1].from = call.from
            /\ Gets(call.remote)[1].to = call.to

\* C11 witness: a range that starts exactly at the length was fetched
ReadRangeFromLength ==
    /\ call.op = "read_range"
    /\ objLen > 0
    /\ call.from = objLen
    /\ call.to >= call.from
    /\ Len(Gets(call.remote)) = 1

\* C12: read_range leaves the cursor unchanged in every outcome (success,
\* InvalidRange, ObjectNotFetched, InvalidContent).
ReadRangeKeepsCursor ==
    call.op = "read_range" => pos = call.pre

\* C12 witness: read_range returned bytes from an offset other than the cursor
ReadRangeReturnedBytes ==
    /\ call.op = "read_range"
    /\ call.result = "ok"
    /\ call.ret > 0
    /\ call.from + call.ret # call.pre

\* C13: a read, seek or read_to_end on a reader whose length is cached sends
\* at most one remote request, a get_object, and seek sends none; a call sends
\* two requests only on a reader whose length is not cached, and they are the
\* one head_object of the length lookup followed by the one get_object; no
\* call sends more than two.
AtMostOneFetchPerCall ==
    call.op \in {"read", "seek", "read_to_end"}
    => /\ Len(Gets(call.remote)) <= 1
       /\ call.op = "seek" => Gets(call.remote) = <<>>
       /\ call.preHeader # None
          => (Heads(call.remote) = <<>> /\ Len(call.remote) <= 1)
       /\ call.preHeader = None => Len(Heads(call.remote)) = 1
       /\ Len(call.remote) <= 2
       /\ Len(call.remote) = 2
          => /\ call.preHeader = None
             /\ call.remote[1] = HeadCall(TRUE)
             /\ call.remote[2].kind = "get"

\* C13 witness: the first read of a reader built by new sent the metadata
\* probe and then the range fetch
ProbeThenFetch ==
    /\ call.op = "read"
    /\ call.preHeader = None
    /\ Len(call.remote) = 2
    /\ call.result = "ok"
    /\ call.ret > 0

\* C17: once the length is cached, no read, seek, read_to_end, read_range or
\* len changes it or sends another head_object; these operations send at
\* most one head_object over the lifetime of the reader.
LengthCachedOnce ==
    /\ lazyProbes <= 1
    /\ (/\ call.op \in {"read", "seek", "read_to_end", "read_range", "len"}
        /\ call.preHeader # None)
       => (header = call.preHeader /\ Heads(call.remote) = <<>>)

\* C17 witness: a reader built by new, whose first call sent the probe, has
\* served a later read from the cached length
ReadAfterLazyProbe ==
    /\ ~viaOpen
    /\ lazyProbes = 1
    /\ call.op = "read"
    /\ call.preHeader # None
    /\ call.result = "ok"
    /\ call.ret > 0

\* the error values a call returns
Errors == {"NegativePosition", "InvalidRange", "ObjectNotFetched", "InvalidContent"}

\* C18: a seek, read or read_to_end that returns an error (negative position,
\* invalid range, failed fetch, body that cannot be collected) leaves the
\* cursor as it was before the call and leaves the caller's buffer or vector
\* unchanged.
ErrorLeavesCursor ==
    (call.op \in {"seek", "read", "read_to_end"} /\ call.result \in Errors)
    => (pos = call.pre /\ call.bufOut = call.bufIn)

\* C18 witness: a seek before the start of the object failed at a cursor > 0
SeekBeforeStartFailed ==
    /\ call.op = "seek"
    /\ call.result = "NegativePosition"
    /\ call.pre > 0

\* C20 (as claimed): the inclusive end index handed to the range fetch never
\* underflows: cursor + len(buffer) - 1 in read (an empty buffer at cursor 0
\* included) and length - 1 in read_to_end (a zero-length object included)
\* are computed without a panic and without wrapping around.
EndIndexNeverUnderflows ==
    call.op \in {"read", "read_to_end"}
    => /\ call.result # "panic:overflow"
       /\ \A i \in 1 .. Len(Gets(call.remote)) :
              Gets(call.remote)[i].to =
                  IF call.op = "read"
                  THEN call.pre + Len(call.bufIn) - 1
                  ELSE objLen - 1

---------------------------------------------------------------------------
(* The pure seek computation on its own: every len, cursor and SeekFrom *)

InitSeek ==
    /\ objLen = 0
    /\ overflowChecks \in BOOLEAN
    /\ phase = "ready"
    /\ viaOpen = FALSE
    /\ pos \in U64
    /\ header \in {<<l>> : l \in U64}
    /\ call = NoCall
    /\ lazyProbes = 0
    /\ uri = NoUri
    /\ drain = NoDrain

SeekFn ==
    \E p \in SeekFrom :
        LET r == s3reader_seek(header[1], pos, p) IN
        /\ call.op = "none"
        /\ call' = [NoCall EXCEPT !.op = "s3reader_seek", !.whence = p.whence,
                                  !.x = p.x, !.pre = pos, !.preHeader = header,
                                  !.result = r.kind, !.ret = r.val,
                                  !.overflow =
                                      s3reader_seek_overflows(header[1], pos, p)]
        /\ UNCHANGED <<lazyProbes, uri, drain, objLen, overflowChecks, phase, viaOpen, pos, header>>

NextSeek == SeekFn

SpecSeek == InitSeek /\ [][NextSeek]_vars

\* C16 (as claimed): for any len, cursor and offset (here already for every
\* cursor <= len) no step of the seek computation overflows or wraps: no
\* addition or subtraction leaves u64, the call does not panic, and |x| of the
\* minimum offset is its magnitude.
SeekNeverOverflows ==
    (call.op = "s3reader_seek" /\ call.pre <= header[1])
    => /\ ~call.overflow
       /\ call.result # "panic:overflow"
       /\ unsigned_abs(I64Min) = Modulus \div 2

---------------------------------------------------------------------------
(* A caller reading to the end: read after read with non-empty buffers, S3  *)
(* answering every request, each get_object with at least one byte          *)

InitDrain ==
    /\ objLen \in 0 .. MaxObjLen
    /\ overflowChecks \in BOOLEAN
    /\ phase = "ready"
    /\ \/ viaOpen = TRUE /\ header = <<objLen>> /\ pos \in 0 .. objLen
       \/ viaOpen = FALSE /\ header = None /\ pos = 0
    /\ call = NoCall
    /\ lazyProbes = 0
    /\ uri = NoUri
    /\ drain = [on |-> TRUE, start |-> pos, delivered |-> <<>>, done |-> FALSE]

\* S3 answered every request of the call, each get_object with a byte or more
Answered(o) ==
    /\ \A i \in 1 .. Len(o.remote) : o.remote[i].ok
    /\ Gets(o.remote) # <<>> => Len(o.data) >= 1

DrainRead ==
    /\ phase = "ready"
    /\ ~drain.done
    /\ \E n \in 1 .. MaxBuf : \E o \in read(header, pos, Buffer(n)) :
        /\ Answered(o)
        /\ phase' = PhaseAfter(o.result)
        /\ pos' = o.pos
        /\ header' = o.header
        /\ call' = [NoCall EXCEPT !.op = "read", !.pre = pos, !.preHeader = header,
                       !.result = o.result, !.ret = o.ret, !.remote = o.remote,
                       !.data = o.data, !.bufIn = Buffer(n), !.bufOut = o.buf]
        /\ lazyProbes' = lazyProbes + Len(Heads(o.remote))
        /\ drain' = [drain EXCEPT !.delivered = @ \o SubSeq(o.buf, 1, o.ret),
                                  !.done = (o.result = "ok" /\ o.ret = 0)]
        /\ UNCHANGED <<uri, objLen, overflowChecks, viaOpen>>

NextDrain == DrainRead

\* the caller keeps calling read until it returns 0
SpecDrain == InitDrain /\ [][NextDrain]_vars /\ WF_vars(NextDrain)

\* C19: from any cursor c <= length, reads with non-empty buffers against an
\* S3 that never fails and returns at least one byte per fetch eventually
\* return 0, and the bytes they delivered, concatenated, are then the bytes
\* [c, length - 1] of the object in order, none skipped or repeated.
DrainDeliversObject ==
    /\ <>(drain.done)
    /\ [](drain.done =>
            /\ drain.delivered = ObjectBytes(drain.start, objLen - drain.start)
            /\ pos = objLen)

\* C19 witness: a loop that began inside the object has ended after more
\* than one read delivered bytes
DrainedInSeveralReads ==
    /\ drain.done
    /\ drain.start > 0
    /\ Len(drain.delivered) >= 2
    /\ call.pre - drain.start > Len(call.bufIn)

---------------------------------------------------------------------------
(* S3ObjectUri::new on its own: URIs as sequences of characters *)

\* "s3://"
Scheme == <<"s", "3", ":", "/", "/">>

\* how a URI may begin: the scheme, each shorter piece of it, other schemes
Beginnings ==
    {SubSeq(Scheme, 1, n) : n \in 0 .. 5}
    \cup {<<"a", "3", ":", "/", "/">>, <<"s", "3", ":", "/", "a">>}

\* what follows: every text of '/' and 'a' up to MaxRest characters
Rests == UNION {[1 .. n -> {"/", "a"}] : n \in 0 .. MaxRest}

Uris == {b \o r : b \in Beginnings, r \in Rests}

\* str::find: the 0-based index of the first '/' of t, -1 for None
find(t) ==
    IF \E i \in 1 .. Len(t) : t[i] = "/"
    THEN (CHOOSE i \in 1 .. Len(t) :
              t[i] = "/" /\ \A j \in 1 .. i - 1 : t[j] # "/") - 1
    ELSE -1

\* the slice u[from..to] of Rust (0-based, to exclusive)
Slice(u, from, to) == SubSeq(u, from + 1, to)

UriResult(u, result, bucket, key) ==
    [input |-> u, result |-> result, bucket |-> bucket, key |-> key]

\* pub fn new(uri: &str) -> Result<S3ObjectUri, S3ReaderError>
S3ObjectUri_new(u) ==
    IF Len(u) < 5
    THEN UriResult(u, "panic:slice", <<>>, <<>>)
    ELSE IF Slice(u, 0, 5) # Scheme
    THEN UriResult(u, "MissingS3Protocol", <<>>, <<>>)
    ELSE LET idx == find(Slice(u, 5, Len(u))) IN
         IF idx = -1
         THEN UriResult(u, "MissingObjectUri", <<>>, <<>>)
         ELSE UriResult(u, "ok", Slice(u, 5, idx + 5), Slice(u, idx + 6, Len(u)))

InitParse ==
    /\ objLen = 0
    /\ overflowChecks \in BOOLEAN
    /\ phase = "none"
    /\ viaOpen = FALSE
    /\ pos = 0
    /\ header = None
    /\ call = NoCall
    /\ lazyProbes = 0
    /\ uri \in {UriResult(u, "none", <<>>, <<>>) : u \in Uris}
    /\ drain = NoDrain

Parse ==
    /\ uri.result = "none"
    /\ uri' = S3ObjectUri_new(uri.input)
    /\ UNCHANGED <<objLen, overflowChecks, phase, viaOpen, pos, header, call,
                   lazyProbes, drain>>

NextParse == Parse

SpecParse == InitParse /\ [][NextParse]_vars

\* the URI begins with "s3://"
BeginsWithScheme(u) == Len(u) >= 5 /\ SubSeq(u, 1, 5) = Scheme

\* C14 (as claimed): for every input that does not begin with "s3://", the
\* empty string and strings shorter than the prefix included, parsing returns
\* the error MissingS3Protocol.
ParseRejectsMissingScheme ==
    (uri.result # "none" /\ ~BeginsWithScheme(uri.input))
    => uri.result = "MissingS3Protocol"

\* C15 (as claimed): for every input beginning with "s3://", parsing fails
\* with MissingObjectUri iff the remainder holds no '/', and otherwise
\* succeeds with a non-empty bucket without '/' and the key that is the
\* remainder after the first '/', so that "s3://" + bucket + "/" + key is the
\* input.
ParseSplitsBucketAndKey ==
    (uri.result # "none" /\ BeginsWithScheme(uri.input))
    => LET rest == SubSeq(uri.input, 6, Len(uri.input)) IN
       IF \A i \in 1 .. Len(rest) : rest[i] # "/"
       THEN uri.result = "MissingObjectUri"
       ELSE /\ uri.result = "ok"
            /\ uri.bucket # <<>>
            /\ \A i \in 1 .. Len(uri.bucket) : uri.bucket[i] # "/"
            /\ Scheme \o uri.bucket \o <<"/">> \o uri.key = uri.input

=============================================================================
